---- MODULE Spec2Model ----
(***************************************************************************)
(* Model of the GRBL host controller (src/core/grbl_controller.py) and of  *)
(* the program model it streams (src/core/gcode_parser.py).                *)
(*                                                                         *)
(* Threads: the caller of the public operations (variable op is its        *)
(* position inside a multi-step operation), the RX worker (_rx_loop), and  *)
(* one TX worker (_tx_loop) per start_stream that started one.  The        *)
(* firmware is the environment: it keeps the lines written to the          *)
(* transport in arrival order (fw) and answers the oldest one with ok or   *)
(* error:N; a soft-reset byte or a boot empties its buffer.                *)
(***************************************************************************)
EXTENDS Integers, Sequences, FiniteSets, TLC

\* GrblController.RX_BUFFER_SIZE
RX_BUFFER_SIZE == 128

\* Number of start_stream calls that start a TX worker.
MaxRuns == 2

\* Number of public operations the caller invokes.
MaxCalls == 5

\* Number of ad-hoc send_command lines the firmware has not answered yet.
MaxAdhoc == 1

\* The programs a caller can load.  A command is its normalized text
\* (GCodeCommand.stripped), kept as its length, whether it is pure ASCII, and
\* whether the firmware accepts it (answers ok) or rejects it (error:N).
\*   1: two lines of 64 bytes, which fill the firmware buffer exactly;
\*   2: a rejected line of 64 bytes, then one of 65 that has to wait for room;
\*   3: a line of 129 bytes;   4: a line that is not ASCII;
\*   5: two lines of 64 bytes, then one of 10 that has to wait for room.
Programs ==
  << << [len |-> 63, ascii |-> TRUE, valid |-> TRUE],
        [len |-> 63, ascii |-> TRUE, valid |-> TRUE] >>,
     << [len |-> 63, ascii |-> TRUE, valid |-> FALSE],
        [len |-> 64, ascii |-> TRUE, valid |-> TRUE] >>,
     << [len |-> 128, ascii |-> TRUE, valid |-> TRUE] >>,
     << [len |-> 5, ascii |-> FALSE, valid |-> TRUE] >>,
     << [len |-> 63, ascii |-> TRUE, valid |-> TRUE],
        [len |-> 63, ascii |-> TRUE, valid |-> TRUE],
        [len |-> 9, ascii |-> TRUE, valid |-> TRUE] >> >>

\* The programs loaded where the public operations are called freely: those
\* of at most two commands.
ShortPrograms == {p \in DOMAIN Programs : Len(Programs[p]) <= 2}

\* The program of the undisturbed run.
RunProgram == CHOOSE p \in DOMAIN Programs : Len(Programs[p]) = 3

\* Lengths of the lines send_command is called with: a manual line such as
\* "$X", and abort_stream's "M5" and "G0 X0 Y0".
ManualLen == 2
M5Len == 2
G0HomeLen == 8

\* The error code the firmware answers with (GRBL_ERRORS: Unsupported command).
ErrCode == 20

Workers == 1..MaxRuns

VARIABLES
  port,         \* _port: "none" | "open"
  alive,        \* _alive
  mstatus,      \* _status (MachineStatus)
  version,      \* grbl_version is non-empty
  prog,         \* _file: 0 = None, else index into Programs
  cstatus,      \* _file.commands[i].status
  ecode,        \* _file.commands[i].error_code (0 = None)
  streaming,    \* _streaming
  paused,       \* _paused
  abort,        \* _abort_flag
  cmd_index,    \* _cmd_index
  buffer_fill,  \* _buffer_fill
  tx,           \* the TX workers: position and locals of each _tx_loop
  nruns,        \* number of TX workers started so far
  op,           \* position of the caller inside a public operation
  fw,           \* firmware: lines received and not yet answered
  welcome,      \* firmware: a welcome line is due
  calls,        \* number of public operations called so far
  written,      \* history: commands written to the transport in this run
  acked,        \* history: commands of the run whose ok/error was processed
  lastpct,      \* history: last value given to on_progress_update in the run
  nfired,       \* history: number of calls of on_job_finished
  aborted,      \* history: abort_stream was called since the last start
  cc,           \* history of the connect() call in progress
  notify,       \* history: the observers the last step notified, in order,
                \* or the mark of a start_stream() that returned early
  aside         \* what the streaming engine above leaves alone, as a record:
                \*   raw: GCodeCommand.raw, a line as a sequence of characters
                \*   texts: the values of .stripped computed so far, in order
                \*   commands: GCodeFile.commands, each as its G/M word and
                \*     its X and Y words
                \*   bounds: the value get_bounds() returned, << >> before
                \*   report: the fields of the status report parsed last
                \*   machine_pos: << machine_x, machine_y, machine_z >>
                \*   work_pos: << work_x, work_y, work_z >>
                \*   setter: each thread's position inside the status setter
                \*   observed: history, the values given to on_status_change
                \*   rx_event: _rx_event is set

vars == << port, alive, mstatus, version, prog, cstatus, ecode, streaming,
           paused, abort, cmd_index, buffer_fill, tx, nruns, op, fw, welcome,
           calls, written, acked, lastpct, nfired, aborted, cc, notify,
           aside >>

\* The controller's variables
controller ==
  << port, alive, mstatus, version, prog, cstatus, ecode, streaming,
     paused, abort, cmd_index, buffer_fill, tx, nruns, op, fw, welcome,
     calls, written, acked, lastpct, nfired, aborted, cc, notify >>

\* The data of the parser, which no step of the controller touches
\* The threads that assign self.status: the RX worker and the caller's
Threads == {"rx", "caller"}

raw == aside.raw
texts == aside.texts
commands == aside.commands
bounds == aside.bounds
report == aside.report
machine_pos == aside.machine_pos
work_pos == aside.work_pos
setter == aside.setter
observed == aside.observed
rx_event == aside.rx_event

conn == << port, alive, mstatus, version, welcome >>
file == << prog, cstatus, ecode >>
flags == << streaming, paused, abort >>
runhist == << written, acked, lastpct, nfired, aborted >>
hist == << runhist, cc >>

----------------------------------------------------------------------------
\* Helpers

RECURSIVE SumSeq(_)
\* sum(self._buffer_fill)
SumSeq(s) == IF s = << >> THEN 0 ELSE Head(s) + SumSeq(Tail(s))

\* GCodeFile.total
total == IF prog = 0 THEN 0 ELSE Len(Programs[prog])

\* GCodeCommand.byte_count: len(stripped + "\n")
byte_count(c) == c.len + 1

\* GCodeFile.ok_count / error_count / sent_count
ok_count == Cardinality({i \in DOMAIN cstatus : cstatus[i] = "OK"})
error_count == Cardinality({i \in DOMAIN cstatus : cstatus[i] = "ERROR"})
sent_count == Cardinality({i \in DOMAIN cstatus : cstatus[i] # "QUEUED"})

\* GrblController.is_connected
is_connected == port = "open"

\* reset_status that leaves error_code as it is
keep_ecode(p) == ecode

\* GCodeFile.reset_status, as the new status and error_code arrays
reset_status(p) == [i \in 1..Len(Programs[p]) |-> "QUEUED"]
reset_ecode(p) == [i \in 1..Len(Programs[p]) |-> 0]

\* The oldest SENT command, 0 when there is none (the for loop of _handle_ok)
OldestSent ==
  IF \E i \in DOMAIN cstatus : cstatus[i] = "SENT"
  THEN CHOOSE i \in DOMAIN cstatus :
         /\ cstatus[i] = "SENT"
         /\ \A j \in DOMAIN cstatus : cstatus[j] = "SENT" => i <= j
  ELSE 0

\* A line written to the transport, as the firmware holds it: its length in
\* bytes, and the command of the loaded program's current run that it carries
\* (0 for any other line), and whether the firmware will answer it with ok.
Line(cost, cmd, ok) == [cost |-> cost, cmd |-> cmd, ok |-> ok]

FwCosts == [i \in DOMAIN fw |-> fw[i].cost]

\* GrblController.progress as the fraction ok_count / total (times 100 in the
\* code), kept as the pair << ok_count, total >>; 0.0 when there is no program
\* or it is empty.
progress == IF prog # 0 /\ total > 0 THEN << ok_count, total >> ELSE << 0, 1 >>

\* No call of on_progress_update yet in this run.
NoProgress == << -1, 1 >>

\* a < b for two fractions << numerator, denominator >>
FracLess(a, b) == a[1] * b[2] < b[1] * a[2]

NotStarted ==
  [pc |-> "off", cmd |-> 0, own |-> FALSE, bc |-> 0, valid |-> TRUE,
   failed |-> FALSE, saw |-> FALSE, held |-> FALSE]

\* No connect() call is in progress
NoCall == [on |-> FALSE, streaming |-> FALSE, abort |-> FALSE,
           report |-> FALSE, closed |-> FALSE]

\* connect() is entered: the streaming and abort flags at that moment
CallConnect ==
  cc' = [on |-> TRUE, streaming |-> streaming, abort |-> abort,
         report |-> FALSE, closed |-> FALSE]

\* connect() returns
ReturnConnect == cc' = NoCall

\* disconnect() returns: closed holds from here to the next connect()
ReturnDisconnect == cc' = [NoCall EXCEPT !.closed = TRUE]

\* The step calls none of on_error, on_connected, on_disconnected
Quiet == notify' = << >>

\* The step calls the observer o once (the observers are set)
Notify(o) == notify' = << o >>

\* start_stream() returns at line 558 or 560, calling no observer
Refused == notify' = << "refused" >>

----------------------------------------------------------------------------
\* No program is loaded (self._file = None)
InitFile ==
  /\ prog = 0
  /\ cstatus = << >>
  /\ ecode = << >>

\* The controller after __init__, but for its program
InitController ==
  /\ port = "none"
  /\ alive = FALSE
  /\ mstatus = "DISCONNECTED"
  /\ version = FALSE
  /\ streaming = FALSE
  /\ paused = FALSE
  /\ abort = FALSE
  /\ cmd_index = 0
  /\ buffer_fill = << >>
  /\ tx = [w \in Workers |-> NotStarted]
  /\ nruns = 0
  /\ op = "idle"
  /\ fw = << >>
  /\ welcome = FALSE
  /\ calls = 0
  /\ written = {}
  /\ acked = {}
  /\ lastpct = NoProgress
  /\ nfired = 0
  /\ aborted = FALSE
  /\ cc = NoCall
  /\ notify = << >>

\* No line, program or report is being parsed, the positions are as
\* __init__ leaves them and no thread is inside the status setter
NoAside ==
  [raw |-> << >>, texts |-> << >>, commands |-> << >>, bounds |-> << >>,
   report |-> << >>, machine_pos |-> << 0, 0, 0 >>,
   work_pos |-> << 0, 0, 0 >>,
   setter |-> [t \in Threads |-> [pc |-> "out", value |-> "DISCONNECTED"]],
   observed |-> << >>, rx_event |-> FALSE]

InitAside == aside = NoAside

Init == InitFile /\ InitController /\ InitAside

----------------------------------------------------------------------------
\* The caller: connect() and disconnect()

\* The caller, between two operations, calls one more
CallStep ==
  /\ op = "idle" /\ calls < MaxCalls /\ calls' = calls + 1
  /\ UNCHANGED aside

Call == CallStep /\ Quiet

\* disconnect(), first part: the three flags (lines 261-263)
DisconnectFlags ==
  /\ alive' = FALSE
  /\ streaming' = FALSE
  /\ abort' = TRUE

\* disconnect(), second part: after the joins, each of which returns when its
\* thread has ended or after 2 s, close the port and report (lines 265-282)
DisconnectClose ==
  /\ port' = "none"
  /\ version' = FALSE
  /\ mstatus' = "DISCONNECTED"

\* disconnect() is called
Disconnect1 ==
  /\ Call
  /\ DisconnectFlags
  /\ op' = "disc_join"
  /\ UNCHANGED << port, mstatus, version, welcome, file, paused,
                  cmd_index, buffer_fill, tx, nruns, fw, hist >>

\* disconnect() returns
Disconnect2 ==
  /\ UNCHANGED << calls, aside >>
  /\ Notify("disconnected")
  /\ ReturnDisconnect
  /\ op = "disc_join"
  /\ DisconnectClose
  /\ op' = "idle"
  /\ UNCHANGED << alive, welcome, file, flags, cmd_index,
                  buffer_fill, tx, nruns, fw, runhist >>

\* connect() is called on a controller that is not connected (lines 203-206)
Connect1 ==
  /\ Call
  /\ CallConnect
  /\ ~is_connected
  /\ mstatus' = "CONNECTING"
  /\ op' = "conn_open"
  /\ UNCHANGED << port, alive, version, welcome, file, flags,
                  cmd_index, buffer_fill, tx, nruns, fw, runhist >>

\* connect() is called on a connected controller: it disconnects first
\* (lines 203-204, then 261-263)
Reconnect1 ==
  /\ Call
  /\ CallConnect
  /\ is_connected
  /\ DisconnectFlags
  /\ op' = "conn_join"
  /\ UNCHANGED << port, mstatus, version, welcome, file, paused,
                  cmd_index, buffer_fill, tx, nruns, fw, runhist >>

\* ... the rest of that disconnect(), then line 206
Reconnect2 ==
  /\ UNCHANGED << calls, aside >>
  /\ Notify("disconnected")
  /\ op = "conn_join"
  /\ port' = "none"
  /\ version' = FALSE
  /\ mstatus' = "CONNECTING"
  /\ op' = "conn_open"
  /\ UNCHANGED << alive, welcome, file, flags, cmd_index,
                  buffer_fill, tx, nruns, fw, hist >>

\* ConnectFail that also marks the job aborted, as disconnect() does
ConnectFailAborts ==
  /\ UNCHANGED << calls, aside >>
  /\ ReturnConnect
  /\ Notify("error")
  /\ op = "conn_open"
  /\ mstatus' = "DISCONNECTED"
  /\ port' = "none"
  /\ abort' = TRUE
  /\ op' = "idle"
  /\ UNCHANGED << alive, version, welcome, file, streaming, paused,
                  cmd_index, buffer_fill, tx, nruns, fw, runhist >>

\* serial.Serial(...) raises SerialException (lines 252-257)
ConnectFail ==
  /\ UNCHANGED << calls, aside >>
  /\ ReturnConnect
  /\ Notify("error")
  /\ op = "conn_open"
  /\ mstatus' = "DISCONNECTED"
  /\ port' = "none"
  /\ op' = "idle"
  /\ UNCHANGED << alive, version, welcome, file, flags, cmd_index,
                  buffer_fill, tx, nruns, fw, runhist >>

\* The port opens; after the boot wait the workers are started (lines
\* 208-223).  boot: opening the port reset the board, which then drops what
\* it had received and sends its welcome line.
ConnectOpen(boot) ==
  /\ UNCHANGED << calls, aside >>
  /\ Quiet
  /\ op = "conn_open"
  /\ port' = "open"
  /\ alive' = TRUE
  /\ IF boot THEN fw' = << >> /\ welcome' = TRUE
             ELSE UNCHANGED << fw, welcome >>
  /\ op' = "conn_wait"
  /\ UNCHANGED << mstatus, version, file, flags, cmd_index, buffer_fill, tx,
                  nruns, hist >>

\* The welcome line was seen within the wait (lines 226-234)
ConnectWelcome ==
  /\ UNCHANGED << calls, aside >>
  /\ ReturnConnect
  /\ Notify("connected")
  /\ op = "conn_wait"
  /\ version
  /\ mstatus' = "IDLE"
  /\ op' = "idle"
  /\ UNCHANGED << port, alive, version, welcome, file, flags,
                  cmd_index, buffer_fill, tx, nruns, fw, runhist >>

\* The wait for the welcome line expires and the status query '?' is written
\* (lines 225-228, 235-240)
ConnectQuery ==
  /\ UNCHANGED << calls, aside >>
  /\ Quiet
  /\ op = "conn_wait"
  /\ ~version
  /\ op' = "conn_query"
  /\ UNCHANGED << conn, file, flags, cmd_index, buffer_fill, tx, nruns, fw,
                  hist >>

\* ... or writing the '?' raises SerialException (lines 239, 252-257)
ConnectQueryFail ==
  /\ UNCHANGED << calls, aside >>
  /\ ReturnConnect
  /\ Notify("error")
  /\ op = "conn_wait"
  /\ ~version
  /\ mstatus' = "DISCONNECTED"
  /\ port' = "none"
  /\ op' = "idle"
  /\ UNCHANGED << alive, version, welcome, file, flags, cmd_index,
                  buffer_fill, tx, nruns, fw, runhist >>

\* ConnectFinish without the fallback to UNKNOWN: the status is left as the
\* RX worker set it, or as connect() set it
ConnectFinishNoFallback ==
  /\ UNCHANGED << calls, aside >>
  /\ ReturnConnect
  /\ Notify("connected")
  /\ op = "conn_query"
  /\ op' = "idle"
  /\ UNCHANGED << port, alive, mstatus, version, welcome, file, flags,
                  cmd_index, buffer_fill, tx, nruns, fw, runhist >>

\* Two seconds after the query: keep the status the RX worker has set, else
\* UNKNOWN; notify on_connected (lines 240-250)
ConnectFinish ==
  /\ UNCHANGED << calls, aside >>
  /\ ReturnConnect
  /\ Notify("connected")
  /\ op = "conn_query"
  /\ mstatus' = IF mstatus # "CONNECTING" THEN mstatus ELSE "UNKNOWN"
  /\ op' = "idle"
  /\ UNCHANGED << port, alive, version, welcome, file, flags,
                  cmd_index, buffer_fill, tx, nruns, fw, runhist >>

----------------------------------------------------------------------------
\* The caller: the streaming operations

\* _send_realtime(b"\x18") as the firmware sees it: the byte is written only
\* when the port is open; the firmware then drops the lines it holds and
\* boots, which ends with a welcome line.  The welcome line is tracked only
\* while grbl_version is empty: read again, it stores the same version.
SendReset ==
  IF is_connected THEN fw' = << >> /\ welcome' = (welcome \/ ~version)
                  ELSE UNCHANGED << fw, welcome >>

\* send_command(line) for a non-empty line of len characters: the line and
\* its newline are written when connected, and nothing else changes.
SendLine(len) ==
  fw' = IF is_connected THEN Append(fw, Line(len + 1, 0, TRUE)) ELSE fw

\* load_file(gcode_file), with a freshly built GCodeFile (as every caller in
\* src/ passes it): the commands a TX worker still holds belong to the
\* previous object from now on.
load_file(p) ==
  /\ Call
  /\ prog' = p
  /\ cstatus' = reset_status(p)
  /\ ecode' = reset_ecode(p)
  /\ cmd_index' = 0
  /\ buffer_fill' = << >>
  /\ tx' = [w \in Workers |-> [tx[w] EXCEPT !.own = FALSE]]
  /\ fw' = [i \in DOMAIN fw |-> [fw[i] EXCEPT !.cmd = 0]]
  /\ written' = {}
  /\ acked' = {}
  /\ UNCHANGED << conn, flags, nruns, op, lastpct, nfired, aborted, cc >>

\* start_stream() without the check of _streaming at line 559
start_streamWhileStreaming ==
  /\ CallStep
  /\ prog = 0 \/ ~is_connected \/ nruns < MaxRuns
  /\ IF prog = 0 \/ ~is_connected
     THEN /\ Refused
          /\ UNCHANGED << file, flags, cmd_index, buffer_fill, tx, nruns, fw,
                          hist >>
     ELSE /\ Quiet
          /\ cstatus' = reset_status(prog)
          /\ ecode' = reset_ecode(prog)
          /\ cmd_index' = 0
          /\ buffer_fill' = << >>
          /\ streaming' = TRUE
          /\ paused' = FALSE
          /\ abort' = FALSE
          /\ nruns' = nruns + 1
          /\ tx' = [tx EXCEPT ![nruns + 1] =
                      [NotStarted EXCEPT !.pc = "loop"]]
          /\ fw' = [i \in DOMAIN fw |-> [fw[i] EXCEPT !.cmd = 0]]
          /\ written' = {}
          /\ acked' = {}
          /\ lastpct' = NoProgress
          /\ aborted' = FALSE
          /\ UNCHANGED << prog, nfired, cc >>
  /\ UNCHANGED << conn, op >>

\* start_stream()
start_stream ==
  /\ CallStep
  /\ prog = 0 \/ ~is_connected \/ streaming \/ nruns < MaxRuns
  /\ IF prog = 0 \/ ~is_connected \/ streaming
     THEN /\ Refused
          /\ UNCHANGED << file, flags, cmd_index, buffer_fill, tx, nruns, fw,
                          hist >>
     ELSE /\ Quiet
          /\ cstatus' = reset_status(prog)
          /\ ecode' = reset_ecode(prog)
          /\ cmd_index' = 0
          /\ buffer_fill' = << >>
          /\ streaming' = TRUE
          /\ paused' = FALSE
          /\ abort' = FALSE
          /\ nruns' = nruns + 1
          /\ tx' = [tx EXCEPT ![nruns + 1] =
                      [NotStarted EXCEPT !.pc = "loop"]]
          /\ fw' = [i \in DOMAIN fw |-> [fw[i] EXCEPT !.cmd = 0]]
          /\ written' = {}
          /\ acked' = {}
          /\ lastpct' = NoProgress
          /\ aborted' = FALSE
          /\ UNCHANGED << prog, nfired, cc >>
  /\ UNCHANGED << conn, op >>

\* feed_hold() / pause_stream()
feed_hold ==
  /\ Call
  /\ paused' = TRUE
  /\ UNCHANGED << conn, file, streaming, abort, cmd_index, buffer_fill, tx,
                  nruns, op, fw, hist >>

\* cycle_resume() / resume_stream()
cycle_resume ==
  /\ Call
  /\ paused' = FALSE
  /\ UNCHANGED << conn, file, streaming, abort, cmd_index, buffer_fill, tx,
                  nruns, op, fw, hist >>

\* A real-time byte that is entered in the inflight record as a line of one
\* byte would be
send_realtimeCounted ==
  /\ buffer_fill' = IF SumSeq(buffer_fill) + 1 <= RX_BUFFER_SIZE
                     THEN Append(buffer_fill, 1) ELSE buffer_fill
  /\ UNCHANGED fw

\* _send_realtime(data) for '?', '!', '~' and 0x85 (lines 460-463): the byte
\* is written when the port is open; the firmware takes it out of the stream,
\* holds no line for it and answers no ok, and nothing is entered in
\* _buffer_fill
send_realtime == UNCHANGED << fw, buffer_fill >>

\* jog_cancel() (lines 529-531)
jog_cancel ==
  /\ Call
  /\ send_realtime
  /\ UNCHANGED << conn, file, flags, cmd_index, tx, nruns, op, hist >>

\* One turn of the status poller: '?' is written while the link is up, and a
\* failure of the write is ignored (_status_loop, lines 448-455)
status_loop ==
  /\ UNCHANGED << calls, aside >>
  /\ Quiet
  /\ alive /\ is_connected
  /\ send_realtime
  /\ UNCHANGED << conn, file, flags, cmd_index, tx, nruns, op, hist >>

\* soft_reset()
soft_reset ==
  /\ Call
  /\ SendReset
  /\ streaming' = FALSE
  /\ buffer_fill' = << >>
  /\ mstatus' = "IDLE"
  /\ UNCHANGED << port, alive, version, file, paused, abort,
                  cmd_index, tx, nruns, op, hist >>

\* abort_stream() up to its sleep (lines 580-583)
abort_stream ==
  /\ Call
  /\ abort' = TRUE
  /\ SendReset
  /\ streaming' = FALSE
  /\ buffer_fill' = << >>
  /\ mstatus' = "IDLE"
  /\ op' = "abort_m5"
  /\ aborted' = TRUE
  /\ UNCHANGED << port, alive, version, file, paused, cmd_index, tx,
                  nruns, written, acked, lastpct, nfired, cc >>

\* abort_stream(): send_command("M5") (line 585)
AbortM5 ==
  /\ UNCHANGED << calls, aside >>
  /\ Quiet
  /\ op = "abort_m5"
  /\ SendLine(M5Len)
  /\ op' = "abort_g0"
  /\ UNCHANGED << conn, file, flags, cmd_index, buffer_fill, tx, nruns,
                  hist >>

\* abort_stream(): send_command("G0 X0 Y0") (line 586)
AbortG0 ==
  /\ UNCHANGED << calls, aside >>
  /\ Quiet
  /\ op = "abort_g0"
  /\ SendLine(G0HomeLen)
  /\ op' = "idle"
  /\ UNCHANGED << conn, file, flags, cmd_index, buffer_fill, tx, nruns,
                  hist >>

\* send_command(line) called by the user with a non-empty line
send_command ==
  /\ Call
  /\ is_connected
  /\ Cardinality({i \in DOMAIN fw : fw[i].cmd = 0}) < MaxAdhoc
  /\ SendLine(ManualLen)
  /\ UNCHANGED << conn, file, flags, cmd_index, buffer_fill, tx, nruns, op,
                  hist >>

----------------------------------------------------------------------------
\* The RX worker (_rx_loop, _process_response)

\* The RX worker is in its loop and can read a line (line 299)
RxReads == alive /\ is_connected

\* The statuses after the oldest SENT command, if any, is set to st
\* (the for loops of _handle_ok and _handle_error)
MarkOldest(st) ==
  IF OldestSent = 0 THEN cstatus ELSE [cstatus EXCEPT ![OldestSent] = st]

\* The history of an ok/error line that answers the firmware's oldest line
AckHistory ==
  /\ acked' = IF Head(fw).cmd # 0 THEN acked \cup {Head(fw).cmd} ELSE acked
  /\ UNCHANGED << written, nfired, aborted, cc >>

\* The welcome line "Grbl 1.1h ..." (lines 324-328)
RxWelcome ==
  /\ UNCHANGED << calls, aside >>
  /\ Quiet
  /\ RxReads
  /\ welcome
  /\ welcome' = FALSE
  /\ version' = TRUE
  /\ UNCHANGED << port, alive, mstatus, file, flags, cmd_index,
                  buffer_fill, tx, nruns, op, fw, hist >>

\* _handle_ok() for the ok that answers the firmware's oldest line (lines
\* 415-426), but for the event
handle_ok ==
  /\ UNCHANGED calls
  /\ Quiet
  /\ RxReads
  /\ fw # << >>
  /\ Head(fw).ok
  /\ fw' = Tail(fw)
  /\ buffer_fill' = IF buffer_fill # << >> THEN Tail(buffer_fill)
                                         ELSE buffer_fill
  /\ UNCHANGED prog
  /\ IF prog # 0 /\ streaming
     THEN /\ cstatus' = MarkOldest("OK")
          /\ lastpct' = progress'
     ELSE UNCHANGED << cstatus, lastpct >>
  /\ AckHistory
  /\ UNCHANGED << conn, ecode, flags, cmd_index, tx, nruns, op >>

\* The firmware answers its oldest line with ok: _handle_ok
RxOk == UNCHANGED aside /\ handle_ok

\* The same, with self._rx_event.set() (line 427)
RxOkSet ==
  /\ handle_ok
  /\ aside' = [aside EXCEPT !.rx_event = @ \/ (prog # 0 /\ streaming)]

\* The firmware answers its oldest line with error:code: _handle_error
RxError(code) ==
  /\ UNCHANGED << calls, aside >>
  /\ Notify("error")
  /\ RxReads
  /\ fw # << >>
  /\ ~Head(fw).ok
  /\ fw' = Tail(fw)
  /\ buffer_fill' = IF buffer_fill # << >> THEN Tail(buffer_fill)
                                         ELSE buffer_fill
  /\ IF prog # 0 /\ streaming
     THEN /\ cstatus' = MarkOldest("ERROR")
          /\ ecode' = IF OldestSent = 0 THEN ecode
                      ELSE [ecode EXCEPT ![OldestSent] = code]
     ELSE UNCHANGED << cstatus, ecode >>
  /\ AckHistory
  /\ UNCHANGED << conn, prog, flags, cmd_index, tx, nruns, op, lastpct >>

\* An alarm that the controller answers with soft_reset() would be
RxAlarmResets == RxReads /\ soft_reset

\* An ALARM:N line (lines 347-356): the status becomes ALARM and on_error is
\* called; nothing is written to the transport
RxAlarm ==
  /\ UNCHANGED << calls, aside >>
  /\ Notify("error")
  /\ RxReads
  /\ mstatus' = "ALARM"
  /\ UNCHANGED << port, alive, version, welcome, file, flags, cmd_index,
                  buffer_fill, tx, nruns, op, fw, hist >>

\* readline() raises SerialException (lines 308-313)
RxFail ==
  /\ UNCHANGED << calls, aside >>
  /\ Quiet
  /\ RxReads
  /\ alive' = FALSE
  /\ mstatus' = "DISCONNECTED"
  /\ UNCHANGED << port, version, welcome, file, flags, cmd_index,
                  buffer_fill, tx, nruns, op, fw, hist >>

\* The states a status report can carry, as _parse_status_report maps them:
\* a known state (Idle, Alarm, ...), or UNKNOWN for any other text.
ReportStatuses == {"IDLE", "ALARM", "UNKNOWN"}

\* A status report <State|...>, the answer to a '?' of the status poller or
\* of connect() (lines 331-333, 361-381)
RxStatus(s) ==
  /\ UNCHANGED << calls, aside >>
  /\ cc' = [cc EXCEPT !.report = cc.on]
  /\ Quiet
  /\ RxReads
  /\ mstatus' = s
  /\ UNCHANGED << port, alive, version, welcome, file, flags, cmd_index,
                  buffer_fill, tx, nruns, op, fw, runhist >>

----------------------------------------------------------------------------
\* A TX worker (_tx_loop).  pc is the line the worker is about to execute:
\*   loop 597-602, fetch 604-605, room 608-611, wait 612-617, check 619,
\*   write 624, append 625-626, mark 627, incr 628, drain 641, drainw 643,
\*   end 646, fire 649; done: returned; dead: ended by an exception not
\*   caught in _tx_loop.  failed is history: the worker's write has raised
\*   SerialException and it has not returned yet; saw is history: the worker
\*   has read _alive as False at line 613 and is on its way to the check of
\*   line 619 or, having passed it, to the write of line 624; held is
\*   history: the worker has slept at line 601 because the run was paused, and
\*   has not accounted for a write since.

\* The worker w moves to pc
Goto(w, pc) == tx' = [tx EXCEPT ![w].pc = pc]

\* The worker w moves to pc after it has evaluated "not self._alive" to True
\* in the wait loop
Sees(w, pc) == tx' = [tx EXCEPT ![w].pc = pc, ![w].saw = TRUE]

\* The worker w sleeps 50 ms and evaluates the loop condition again
\* (lines 600-602)
Sleeps(w) == tx' = [tx EXCEPT ![w].held = TRUE]

\* The worker w leaves the loop for the drain (lines 599, 620, 633, 641)
Leaves(w) ==
  tx' = [tx EXCEPT ![w].pc = "drain", ![w].saw = FALSE, ![w].held = FALSE]

\* The loop condition and the abort and pause checks (lines 597-602)
TxLoop(w) ==
  /\ UNCHANGED << calls, aside >>
  /\ Quiet
  /\ tx[w].pc = "loop"
  /\ IF streaming /\ alive /\ cmd_index < total
     THEN IF abort THEN Leaves(w)
          ELSE IF paused THEN Sleeps(w)
          ELSE Goto(w, "fetch")
     ELSE Leaves(w)
  /\ UNCHANGED << conn, file, flags, cmd_index, buffer_fill, nruns, op, fw,
                  hist >>

\* cmd = self._file.commands[self._cmd_index]; byte_count = cmd.byte_count
\* (lines 604-605): IndexError past the end, UnicodeEncodeError from
\* serial_bytes for a text that is not ASCII
TxFetch(w) ==
  /\ UNCHANGED << calls, aside >>
  /\ Quiet
  /\ tx[w].pc = "fetch"
  /\ IF cmd_index >= total
     THEN tx' = [tx EXCEPT ![w].pc = "dead", ![w].held = FALSE]
     ELSE LET c == Programs[prog][cmd_index + 1] IN
          IF ~c.ascii
          THEN tx' = [tx EXCEPT ![w] =
                        [pc |-> "dead", cmd |-> cmd_index + 1, own |-> TRUE,
                         bc |-> 0, valid |-> c.valid, failed |-> FALSE,
                         saw |-> FALSE, held |-> FALSE]]
          ELSE tx' = [tx EXCEPT ![w] =
                        [pc |-> "room", cmd |-> cmd_index + 1, own |-> TRUE,
                         bc |-> byte_count(c), valid |-> c.valid,
                         failed |-> FALSE, saw |-> FALSE,
                         held |-> tx[w].held]]
  /\ UNCHANGED << conn, file, flags, cmd_index, buffer_fill, nruns, op, fw,
                  hist >>

\* buffer_used + byte_count > RX_BUFFER_SIZE, with buffer_used read under the
\* lock just before (lines 608-611, 616-617)
NoRoom(w) == SumSeq(buffer_fill) + tx[w].bc > RX_BUFFER_SIZE

\* The first test for room (lines 608-611)
TxRoom(w) ==
  /\ UNCHANGED << calls, aside >>
  /\ Quiet
  /\ tx[w].pc = "room"
  /\ IF NoRoom(w) THEN Goto(w, "wait") ELSE Goto(w, "check")
  /\ UNCHANGED << conn, file, flags, cmd_index, buffer_fill, nruns, op, fw,
                  hist >>

\* One turn of the wait loop: leave on abort or lost link, else wait for the
\* event or 100 ms, clear it and test again (lines 612-617, 611)
TxWait(w) ==
  /\ UNCHANGED << calls, aside >>
  /\ Quiet
  /\ tx[w].pc = "wait"
  /\ IF abort THEN Goto(w, "check")
     ELSE IF ~alive THEN Sees(w, "check")
     ELSE IF NoRoom(w) THEN Goto(w, "wait")
     ELSE Goto(w, "check")
  /\ UNCHANGED << conn, file, flags, cmd_index, buffer_fill, nruns, op, fw,
                  hist >>

\* The wait loop statement by statement, with the event.  A step of it:
WaitStep(w, from, to) ==
  /\ UNCHANGED calls
  /\ Quiet
  /\ tx[w].pc = from
  /\ tx' = [tx EXCEPT ![w].pc = to,
                       ![w].saw = (from = "wait" /\ ~abort /\ ~alive)]
  /\ UNCHANGED << conn, file, flags, cmd_index, buffer_fill, nruns, op, fw,
                  hist >>

\* if self._abort_flag or not self._alive: break (lines 612-613)
WaitBreak(w) ==
  /\ WaitStep(w, "wait", IF abort \/ ~alive THEN "check" ELSE "wait_event")
  /\ UNCHANGED aside

\* self._rx_event.wait(timeout=0.1) returns (line 614): at once when the
\* event is set, else when it is set or after 100 ms
WaitEvent(w) ==
  /\ WaitStep(w, "wait_event", "wait_clear")
  /\ UNCHANGED aside

\* self._rx_event.clear() (line 615)
WaitClear(w) ==
  /\ WaitStep(w, "wait_clear", "wait_read")
  /\ aside' = [aside EXCEPT !.rx_event = FALSE]

\* A worker that tests again the sum it read before the wait would be
WaitReadStale(w) ==
  /\ WaitStep(w, "wait_read", "wait")
  /\ UNCHANGED aside

\* buffer_used is read again under the lock and the loop condition tested
\* (lines 616-617, 611)
WaitRead(w) ==
  /\ WaitStep(w, "wait_read", IF NoRoom(w) THEN "wait" ELSE "check")
  /\ UNCHANGED aside

\* if self._abort_flag or not self._alive: break (lines 619-620)
TxCheck(w) ==
  /\ UNCHANGED << calls, aside >>
  /\ Quiet
  /\ tx[w].pc = "check"
  /\ IF abort \/ ~alive
     THEN Leaves(w)
     ELSE Goto(w, "write")
  /\ UNCHANGED << conn, file, flags, cmd_index, buffer_fill, nruns, op, fw,
                  hist >>

\* self._port.write(cmd.serial_bytes) succeeds (line 624); with no port
\* object the call raises AttributeError, which nothing catches
TxWrite(w) ==
  /\ UNCHANGED << calls, aside >>
  /\ Quiet
  /\ tx[w].pc = "write"
  /\ IF is_connected
     THEN /\ fw' = Append(fw, Line(tx[w].bc,
                                    IF tx[w].own THEN tx[w].cmd ELSE 0,
                                    tx[w].valid))
          /\ written' = IF tx[w].own THEN written \cup {tx[w].cmd}
                                        ELSE written
          /\ tx' = [tx EXCEPT ![w].pc = "append", ![w].saw = FALSE]
     ELSE /\ tx' = [tx EXCEPT ![w].pc = "dead", ![w].saw = FALSE,
                                ![w].held = FALSE]
          /\ UNCHANGED << fw, written >>
  /\ UNCHANGED << conn, file, flags, cmd_index, buffer_fill, nruns, op,
                  acked, lastpct, nfired, aborted, cc >>

\* self._port.write raises SerialException (lines 630-633)
TxWriteFail(w) ==
  /\ UNCHANGED << calls, aside >>
  /\ Quiet
  /\ tx[w].pc = "write"
  /\ is_connected
  /\ streaming' = FALSE
  /\ tx' = [tx EXCEPT ![w].pc = "drain", ![w].failed = TRUE,
                        ![w].held = FALSE]
  /\ UNCHANGED << conn, file, paused, abort, cmd_index, buffer_fill, nruns,
                  op, fw, hist >>

\* with self._lock: self._buffer_fill.append(byte_count) (lines 625-626)
TxAppend(w) ==
  /\ UNCHANGED << calls, aside >>
  /\ Quiet
  /\ tx[w].pc = "append"
  /\ buffer_fill' = Append(buffer_fill, tx[w].bc)
  /\ tx' = [tx EXCEPT ![w].pc = "mark", ![w].held = FALSE]
  /\ UNCHANGED << conn, file, flags, cmd_index, nruns, op, fw, hist >>

\* cmd.status = CommandStatus.SENT (line 627)
TxMark(w) ==
  /\ UNCHANGED << calls, aside >>
  /\ Quiet
  /\ tx[w].pc = "mark"
  /\ cstatus' = IF tx[w].own THEN [cstatus EXCEPT ![tx[w].cmd] = "SENT"]
                             ELSE cstatus
  /\ Goto(w, "incr")
  /\ UNCHANGED << conn, prog, ecode, flags, cmd_index, buffer_fill, nruns,
                  op, fw, hist >>

\* A cursor that is advanced only while the run is not paused
TxIncrUnlessPaused(w) ==
  /\ UNCHANGED << calls, aside >>
  /\ Quiet
  /\ tx[w].pc = "incr"
  /\ cmd_index' = IF paused THEN cmd_index ELSE cmd_index + 1
  /\ Goto(w, "loop")
  /\ UNCHANGED << conn, file, flags, buffer_fill, nruns, op, fw, hist >>

\* self._cmd_index += 1 and the pacing sleep (lines 628, 636-638)
TxIncr(w) ==
  /\ UNCHANGED << calls, aside >>
  /\ Quiet
  /\ tx[w].pc = "incr"
  /\ cmd_index' = cmd_index + 1
  /\ Goto(w, "loop")
  /\ UNCHANGED << conn, file, flags, buffer_fill, nruns, op, fw, hist >>

\* if not self._abort_flag (line 641)
TxDrain(w) ==
  /\ UNCHANGED << calls, aside >>
  /\ Quiet
  /\ tx[w].pc = "drain"
  /\ IF abort THEN Goto(w, "end") ELSE Goto(w, "drainw")
  /\ UNCHANGED << conn, file, flags, cmd_index, buffer_fill, nruns, op, fw,
                  hist >>

\* The drain loop finds _buffer_fill empty (line 643)
TxDrained(w) ==
  /\ UNCHANGED << calls, aside >>
  /\ Quiet
  /\ tx[w].pc = "drainw"
  /\ buffer_fill = << >>
  /\ Goto(w, "end")
  /\ UNCHANGED << conn, file, flags, cmd_index, buffer_fill, nruns, op, fw,
                  hist >>

\* The 30 s of the drain loop are over (line 643)
TxDrainTimeout(w) ==
  /\ UNCHANGED << calls, aside >>
  /\ Quiet
  /\ tx[w].pc = "drainw"
  /\ buffer_fill # << >>
  /\ Goto(w, "end")
  /\ UNCHANGED << conn, file, flags, cmd_index, buffer_fill, nruns, op, fw,
                  hist >>

\* A worker that goes on to the observer without clearing _streaming
TxEndKeepsStreaming(w) ==
  /\ UNCHANGED << calls, aside >>
  /\ Quiet
  /\ tx[w].pc = "end"
  /\ Goto(w, "fire")
  /\ UNCHANGED << conn, file, flags, cmd_index, buffer_fill, nruns, op, fw,
                  hist >>

\* self._streaming = False (line 646)
TxEnd(w) ==
  /\ UNCHANGED << calls, aside >>
  /\ Quiet
  /\ tx[w].pc = "end"
  /\ streaming' = FALSE
  /\ Goto(w, "fire")
  /\ UNCHANGED << conn, file, paused, abort, cmd_index, buffer_fill, nruns,
                  op, fw, hist >>

\* self.on_job_finished() (lines 649-650)
TxFire(w) ==
  /\ UNCHANGED << calls, aside >>
  /\ Quiet
  /\ tx[w].pc = "fire"
  /\ nfired' = nfired + 1
  /\ tx' = [tx EXCEPT ![w].pc = "done", ![w].failed = FALSE]
  /\ UNCHANGED << conn, file, flags, cmd_index, buffer_fill, nruns, op, fw,
                  written, acked, lastpct, aborted, cc >>

TxStep(w) ==
  \/ TxLoop(w) \/ TxFetch(w) \/ TxRoom(w) \/ TxWait(w) \/ TxCheck(w)
  \/ TxWrite(w) \/ TxWriteFail(w) \/ TxAppend(w) \/ TxMark(w) \/ TxIncr(w)
  \/ TxDrain(w) \/ TxDrained(w) \/ TxDrainTimeout(w) \/ TxEnd(w)
  \/ TxFire(w)

----------------------------------------------------------------------------
\* The streaming engine with its public operations.  The board boots when the
\* port opens, and connect() returns once the welcome line has been read
\* (its branch for a wait that expires, lines 235-250, is not taken).
Next ==
  \/ Connect1 \/ Reconnect1 \/ Reconnect2 \/ ConnectFail
  \/ ConnectOpen(TRUE) \/ ConnectWelcome
  \/ Disconnect1 \/ Disconnect2
  \/ \E p \in ShortPrograms : load_file(p)
  \/ start_stream \/ feed_hold \/ cycle_resume \/ soft_reset
  \/ abort_stream \/ AbortM5 \/ AbortG0 \/ send_command
  \/ RxWelcome \/ RxOk \/ RxError(ErrCode) \/ RxFail
  \/ \E w \in Workers : TxStep(w)

Spec == Init /\ [][Next]_vars

----------------------------------------------------------------------------
\* One undisturbed run: the caller connects, loads program 5 and starts the
\* stream once; the firmware answers every line with ok; no write fails, and
\* the drain wait expires only when the firmware has nothing left to answer.
RunLoad == prog = 0 /\ load_file(RunProgram)

RunStart == nruns = 0 /\ start_stream

RunTx(w) ==
  \/ TxLoop(w) \/ TxFetch(w) \/ TxRoom(w) \/ TxWait(w) \/ TxCheck(w)
  \/ TxWrite(w) \/ TxAppend(w) \/ TxMark(w) \/ TxIncr(w) \/ TxDrain(w)
  \/ TxDrained(w) \/ (fw = << >> /\ TxDrainTimeout(w)) \/ TxEnd(w)
  \/ TxFire(w)

NextRun ==
  \/ Connect1 \/ ConnectOpen(TRUE) \/ RxWelcome \/ ConnectWelcome
  \/ RunLoad \/ RunStart \/ RxOk
  \/ \E w \in Workers : RunTx(w)

SpecRun == Init /\ [][NextRun]_vars

----------------------------------------------------------------------------
\* One run as above, while the caller pauses and resumes it and sends lines
\* of its own, and the RX worker reads the status reports that answer the
\* status poller.
NextPause ==
  \/ NextRun
  \/ feed_hold \/ cycle_resume \/ send_command
  \/ \E s \in ReportStatuses : RxStatus(s)

SpecPause == Init /\ [][NextPause]_vars

----------------------------------------------------------------------------
\* start_stream() statement by statement, as the other threads see it: the
\* TX worker of an earlier run, which start_stream() does not join, and the
\* RX worker run between its lines.  op is the statement it is about to
\* execute.

\* A step of start_stream() past its first statement
StartStep(from, to) ==
  /\ UNCHANGED << calls, aside >>
  /\ Quiet
  /\ op = from
  /\ op' = to

\* The two guards and self._file.reset_status() (lines 557-562)
StartReset ==
  /\ CallStep
  /\ IF prog = 0 \/ ~is_connected \/ streaming
     THEN /\ Refused
          /\ UNCHANGED << file, op >>
     ELSE /\ Quiet
          /\ nruns < MaxRuns
          /\ cstatus' = reset_status(prog)
          /\ ecode' = reset_ecode(prog)
          /\ op' = "start_cursor"
          /\ UNCHANGED prog
  /\ UNCHANGED << conn, flags, cmd_index, buffer_fill, tx, nruns, fw, hist >>

\* self._cmd_index = 0 (line 563)
StartCursor ==
  /\ StartStep("start_cursor", "start_clear")
  /\ cmd_index' = 0
  /\ UNCHANGED << conn, file, flags, buffer_fill, tx, nruns, fw, hist >>

\* self._buffer_fill.clear() (line 564)
StartClear ==
  /\ StartStep("start_clear", "start_streaming")
  /\ buffer_fill' = << >>
  /\ UNCHANGED << conn, file, flags, cmd_index, tx, nruns, fw, hist >>

\* self._streaming = True (line 565)
StartStreaming ==
  /\ StartStep("start_streaming", "start_paused")
  /\ streaming' = TRUE
  /\ UNCHANGED << conn, file, paused, abort, cmd_index, buffer_fill, tx,
                  nruns, fw, hist >>

\* self._paused = False (line 566)
StartPaused ==
  /\ StartStep("start_paused", "start_abort")
  /\ paused' = FALSE
  /\ UNCHANGED << conn, file, streaming, abort, cmd_index, buffer_fill, tx,
                  nruns, fw, hist >>

\* self._abort_flag = False (line 567)
StartAbort ==
  /\ StartStep("start_abort", "start_thread")
  /\ abort' = FALSE
  /\ UNCHANGED << conn, file, streaming, paused, cmd_index, buffer_fill, tx,
                  nruns, fw, hist >>

\* The TX worker is created and started (lines 569-570); the run's history
\* begins, and the lines the firmware still holds are none of its commands
StartThread ==
  /\ StartStep("start_thread", "idle")
  /\ nruns' = nruns + 1
  /\ tx' = [tx EXCEPT ![nruns + 1] = [NotStarted EXCEPT !.pc = "loop"]]
  /\ fw' = [i \in DOMAIN fw |-> [fw[i] EXCEPT !.cmd = 0]]
  /\ written' = {}
  /\ acked' = {}
  /\ lastpct' = NoProgress
  /\ aborted' = FALSE
  /\ UNCHANGED << conn, file, flags, cmd_index, buffer_fill, nfired, cc >>

\* The program of these runs: the one of two lines of 64 bytes
StartProgram == CHOOSE p \in ShortPrograms : Len(Programs[p]) = 2 /\
                  \A i \in 1..2 : Programs[p][i].len = 63 /\ Programs[p][i].valid

StartLoad == prog = 0 /\ load_file(StartProgram)

\* The caller connects, loads a program, and starts runs that it pauses, that
\* it ends with soft_reset() or abort_stream(), or that end by themselves or
\* by a failed write; the firmware answers every line with ok.
NextStart ==
  \/ Connect1 \/ ConnectOpen(TRUE) \/ RxWelcome \/ ConnectWelcome
  \/ StartLoad
  \/ StartReset \/ StartCursor \/ StartClear \/ StartStreaming
  \/ StartPaused \/ StartAbort \/ StartThread
  \/ feed_hold \/ soft_reset \/ abort_stream \/ AbortM5 \/ AbortG0
  \/ RxOk
  \/ \E w \in Workers : TxStep(w)

SpecStart == Init /\ [][NextStart]_vars

----------------------------------------------------------------------------
\* One run whose firmware may be slow to answer: the 30 s of the drain wait
\* can expire with lines unanswered.  The TX worker is a thread of its own,
\* which the scheduler runs again and again: it takes a step whenever it has
\* one to take.
DrainTx(w) ==
  \/ TxLoop(w) \/ TxFetch(w) \/ TxRoom(w) \/ TxWait(w) \/ TxCheck(w)
  \/ TxWrite(w) \/ TxAppend(w) \/ TxMark(w) \/ TxIncr(w) \/ TxDrain(w)
  \/ TxDrained(w) \/ TxDrainTimeout(w) \/ TxEnd(w) \/ TxFire(w)

NextDrain ==
  \/ Connect1 \/ ConnectOpen(TRUE) \/ RxWelcome \/ ConnectWelcome
  \/ RunLoad \/ RunStart \/ RxOk
  \/ \E w \in Workers : DrainTx(w)

SpecDrain ==
  Init /\ [][NextDrain]_vars /\ WF_vars(\E w \in Workers : DrainTx(w))

----------------------------------------------------------------------------
\* One run with the acknowledgment event: the RX worker sets it, the TX
\* worker waits for it up to 100 ms and clears it.  The firmware may be slow,
\* and the TX worker is scheduled again and again.
WaitTx(w) ==
  \/ TxLoop(w) \/ TxFetch(w) \/ TxRoom(w)
  \/ WaitBreak(w) \/ WaitEvent(w) \/ WaitClear(w) \/ WaitRead(w)
  \/ TxCheck(w) \/ TxWrite(w) \/ TxAppend(w) \/ TxMark(w) \/ TxIncr(w)
  \/ TxDrain(w) \/ TxDrained(w) \/ TxDrainTimeout(w) \/ TxEnd(w)
  \/ TxFire(w)

NextWait ==
  \/ Connect1 \/ ConnectOpen(TRUE) \/ RxWelcome \/ ConnectWelcome
  \/ RunLoad \/ RunStart \/ RxOkSet
  \/ \E w \in Workers : WaitTx(w)

SpecWait ==
  Init /\ [][NextWait]_vars /\ WF_vars(\E w \in Workers : WaitTx(w))

----------------------------------------------------------------------------
\* One run that the caller may interrupt with soft_reset(): streaming is
\* then false while the TX worker has not reached line 646.
NextSoftReset == NextRun \/ soft_reset

SpecSoftReset == Init /\ [][NextSoftReset]_vars

----------------------------------------------------------------------------
\* The same run with its pauses, while the firmware raises alarms.
NextAlarm == NextPause \/ RxAlarm

SpecAlarm == Init /\ [][NextAlarm]_vars

----------------------------------------------------------------------------
\* The same, with every writer of a real-time byte: the status poller,
\* jog_cancel(), and a connect() whose wait for the welcome line expires.
NextRealtime ==
  \/ NextPause
  \/ ConnectQuery \/ ConnectFinish
  \/ status_loop \/ jog_cancel

SpecRealtime == Init /\ [][NextRealtime]_vars

----------------------------------------------------------------------------
\* The connection state machine: connect() and disconnect() with every
\* outcome of the open, of the boot and of the two waits, while the RX worker
\* reads welcome lines and status reports and can lose the link.
NextConn ==
  \/ Connect1 \/ Reconnect1 \/ Reconnect2 \/ ConnectFail
  \/ (\E boot \in BOOLEAN : ConnectOpen(boot))
  \/ ConnectWelcome \/ ConnectQuery \/ ConnectQueryFail \/ ConnectFinish
  \/ Disconnect1 \/ Disconnect2
  \/ RxWelcome \/ (\E s \in ReportStatuses : RxStatus(s)) \/ RxFail

SpecConn == Init /\ [][NextConn]_vars

----------------------------------------------------------------------------
\* GCodeFile.reset_status() on its own: a program in any combination of
\* command statuses, an ERROR command carrying its error code, is reset by
\* its owner.
Statuses == {"QUEUED", "SENT", "OK", "ERROR"}

InitAnyFile ==
  /\ prog \in DOMAIN Programs
  /\ cstatus \in [1..Len(Programs[prog]) -> Statuses]
  /\ ecode = [i \in 1..Len(Programs[prog]) |->
                IF cstatus[i] = "ERROR" THEN ErrCode ELSE 0]

\* self._file.reset_status() (gcode_parser.py lines 119-122)
ResetStatus ==
  /\ CallStep
  /\ Quiet
  /\ cstatus' = reset_status(prog)
  /\ ecode' = reset_ecode(prog)
  /\ UNCHANGED << conn, prog, flags, cmd_index, buffer_fill, tx, nruns, op,
                  fw, hist >>

\* A controller as constructed that holds any such program
InitReset == InitAnyFile /\ InitController /\ InitAside

SpecReset == InitReset /\ [][ResetStatus]_vars

----------------------------------------------------------------------------
\* GCodeCommand.stripped on its own: a raw line over a small alphabet is
\* normalized, and the result is normalized again.
Alphabet == {"g", "G", "1", " ", "(", ")", ";"}

MaxLine == 5

Lines == UNION {[1..n -> Alphabet] : n \in 0..MaxLine}

\* The index of the first character c of l at or after position i, 0 if none
RECURSIVE Find(_, _, _)
Find(l, c, i) ==
  IF i > Len(l) THEN 0
  ELSE IF l[i] = c THEN i
  ELSE Find(l, c, i + 1)

\* re.sub(r"\(.*?\)", "", l, count=1): only the first comment is removed
RECURSIVE RemoveFirstParens(_)
RemoveFirstParens(l) ==
  IF l = << >> THEN << >>
  ELSE IF Head(l) = "(" /\ Find(l, ")", 2) # 0
       THEN SubSeq(l, Find(l, ")", 2) + 1, Len(l))
       ELSE << Head(l) >> \o RemoveFirstParens(Tail(l))

\* re.sub(r"\(.*?\)", "", l): scanning from the left, each "(" that has a
\* ")" after it is dropped with everything up to the nearest such ")"
RECURSIVE RemoveParens(_)
RemoveParens(l) ==
  IF l = << >> THEN << >>
  ELSE IF Head(l) = "(" /\ Find(l, ")", 2) # 0
       THEN RemoveParens(SubSeq(l, Find(l, ")", 2) + 1, Len(l)))
       ELSE << Head(l) >> \o RemoveParens(Tail(l))

\* l.split(";")[0]
BeforeSemicolon(l) ==
  IF Find(l, ";", 1) = 0 THEN l ELSE SubSeq(l, 1, Find(l, ";", 1) - 1)

\* l.strip()
RECURSIVE Strip(_)
Strip(l) ==
  IF l = << >> THEN l
  ELSE IF Head(l) = " " THEN Strip(Tail(l))
  ELSE IF l[Len(l)] = " " THEN Strip(SubSeq(l, 1, Len(l) - 1))
  ELSE l

\* l.upper()
Upper(l) == [i \in DOMAIN l |-> IF l[i] = "g" THEN "G" ELSE l[i]]

\* GCodeCommand.stripped
stripped(l) == Upper(Strip(BeforeSemicolon(RemoveParens(l))))

InitLine == aside \in {[NoAside EXCEPT !.raw = l] : l \in Lines}

\* GCodeCommand(raw).stripped
Normalize ==
  /\ texts = << >>
  /\ aside' = [aside EXCEPT !.texts = << stripped(raw) >>]
  /\ UNCHANGED controller

\* GCodeCommand(raw=text).stripped for the text just computed
NormalizeAgain ==
  /\ Len(texts) = 1
  /\ aside' = [aside EXCEPT !.texts = Append(texts, stripped(texts[1]))]
  /\ UNCHANGED controller

NextStripped == Normalize \/ NormalizeAgain

\* Any line, beside a controller as constructed
InitStripped == InitFile /\ InitController /\ InitLine

SpecStripped == InitStripped /\ [][NextStripped]_vars

----------------------------------------------------------------------------
\* GCodeFile.get_bounds() on its own.  A command is its first word, as the
\* characters of the stripped text start with it, and its X and Y words:
\* << >> when the line has none, else << v >> with v the integer after the
\* letter (what get_param returns).
G0 == << "G", "0" >>
G1 == << "G", "1" >>
G10 == << "G", "1", "0" >>
M5 == << "M", "5" >>

\* G0 and G1 are motion commands; G10 (set a coordinate offset) and M5 are not
Words == {G0, G1, G10, M5}

Coords == {-1, 2}

Params == {<< >>} \cup {<< v >> : v \in Coords}

MaxCommands == 2

GCodeCommands == [word : Words, x : Params, y : Params]

GCodeFiles == UNION {[1..n -> GCodeCommands] : n \in 0..MaxCommands}

\* GCodeCommand.is_movement: re.match(r"^G[0-3]", stripped)
is_movement(c) ==
  /\ Len(c.word) >= 2
  /\ c.word[1] = "G"
  /\ c.word[2] \in {"0", "1", "2", "3"}

Min(a, b) == IF a <= b THEN a ELSE b
Max(a, b) == IF a >= b THEN a ELSE b

\* get_bounds before its loop (lines 126-128); seen is FALSE while min_x is
\* inf, that is while no point has been taken
NoPoint ==
  [x |-> 0, y |-> 0, seen |-> FALSE, min_x |-> 0, min_y |-> 0, max_x |-> 0,
   max_y |-> 0]

\* One turn of the loop of get_bounds (lines 131-141)
Track(st, c) ==
  LET x == IF c.x # << >> THEN c.x[1] ELSE st.x
      y == IF c.y # << >> THEN c.y[1] ELSE st.y
  IN  IF ~is_movement(c) THEN [st EXCEPT !.x = x, !.y = y]
      ELSE IF ~st.seen
      THEN [x |-> x, y |-> y, seen |-> TRUE, min_x |-> x, min_y |-> y,
            max_x |-> x, max_y |-> y]
      ELSE [x |-> x, y |-> y, seen |-> TRUE,
            min_x |-> Min(st.min_x, x), min_y |-> Min(st.min_y, y),
            max_x |-> Max(st.max_x, x), max_y |-> Max(st.max_y, y)]

\* The loop of get_bounds over the commands cs
RECURSIVE TrackAll(_, _)
TrackAll(st, cs) ==
  IF cs = << >> THEN st ELSE TrackAll(Track(st, Head(cs)), Tail(cs))

\* GCodeFile.get_bounds
get_bounds(cs) ==
  LET st == TrackAll(NoPoint, cs)
  IN  IF ~st.seen THEN << 0, 0, 0, 0 >>
      ELSE << st.min_x, st.min_y, st.max_x, st.max_y >>

InitCommands ==
  aside \in {[NoAside EXCEPT !.commands = cs] : cs \in GCodeFiles}

\* GCodeFile(commands).get_bounds()
GetBounds ==
  /\ bounds = << >>
  /\ aside' = [aside EXCEPT !.bounds = get_bounds(commands)]
  /\ UNCHANGED controller

\* Any such program, beside a controller as constructed
InitBounds == InitFile /\ InitController /\ InitCommands

SpecBounds == InitBounds /\ [][GetBounds]_vars

----------------------------------------------------------------------------
\* The position fields of _parse_status_report on their own: the RX worker
\* parses one status report after the other.  A report is the sequence of
\* its fields after the state, each a key and three coordinates; a key
\* occurs at most once.
Keys == {"MPos", "WPos", "WCO"}

Vectors == {<< 0, 0, 0 >>, << 1, 2, 3 >>}

Fields == [key : Keys, v : Vectors]

Reports ==
  {r \in UNION {[1..n -> Fields] : n \in 0..Cardinality(Keys)} :
     \A i, j \in DOMAIN r : r[i].key = r[j].key => i = j}

\* One turn of the loop over the fields (lines 384-402), on the pair
\* [m |-> machine position, w |-> work position]
ParseField(p, f) ==
  IF f.key = "MPos" THEN [p EXCEPT !.m = f.v]
  ELSE IF f.key = "WPos" THEN [p EXCEPT !.w = f.v]
  ELSE [p EXCEPT !.w = << p.m[1] - f.v[1], p.m[2] - f.v[2], p.w[3] >>]

\* The loop over the fields
RECURSIVE ParseFields(_, _)
ParseFields(p, r) ==
  IF r = << >> THEN p ELSE ParseFields(ParseField(p, Head(r)), Tail(r))

\* _parse_status_report(line), as to the positions
ParsePosition(r) ==
  LET p == ParseFields([m |-> machine_pos, w |-> work_pos], r)
  IN  /\ aside' = [aside EXCEPT !.report = r, !.machine_pos = p.m,
                                   !.work_pos = p.w]
      /\ UNCHANGED controller

NextPosition == \E r \in Reports : ParsePosition(r)

SpecPosition == Init /\ [][NextPosition]_vars

----------------------------------------------------------------------------
\* The status setter (lines 173-178) step by step, entered by the RX worker
\* (_parse_status_report line 382, _rx_loop line 312) and by the caller's
\* thread (connect, disconnect, soft_reset, abort_stream) at the same time.
Assigned ==
  [rx |-> {"IDLE", "ALARM", "DISCONNECTED"},
   caller |-> {"CONNECTING", "IDLE", "DISCONNECTED"}]

\* What a step of the setter leaves alone
SetterFrame ==
  UNCHANGED << port, alive, version, welcome, file, flags, cmd_index,
               buffer_fill, tx, nruns, op, fw, hist, notify >>

\* self.status = v is reached: if self._status != value (line 175)
SetterTest(t, v) ==
  /\ setter[t].pc = "out"
  /\ calls < MaxCalls
  /\ calls' = calls + 1
  /\ aside' = [aside EXCEPT !.setter[t] =
                 IF mstatus # v THEN [pc |-> "assign", value |-> v]
                 ELSE [pc |-> "out", value |-> v]]
  /\ UNCHANGED mstatus
  /\ SetterFrame

\* self._status = value (line 176)
SetterAssign(t) ==
  /\ setter[t].pc = "assign"
  /\ mstatus' = setter[t].value
  /\ aside' = [aside EXCEPT !.setter[t].pc = "call"]
  /\ UNCHANGED calls
  /\ SetterFrame

\* self.on_status_change(value) (lines 177-178)
SetterCall(t) ==
  /\ setter[t].pc = "call"
  /\ aside' = [aside EXCEPT !.observed = Append(observed, setter[t].value),
                             !.setter[t].pc = "out"]
  /\ UNCHANGED << calls, mstatus >>
  /\ SetterFrame

NextStatus ==
  \E t \in Threads :
    \/ \E v \in Assigned[t] : SetterTest(t, v)
    \/ SetterAssign(t)
    \/ SetterCall(t)

SpecStatus == Init /\ [][NextStatus]_vars

----------------------------------------------------------------------------
\* C1. Flow-control safety: in every reachable state the byte costs held in
\* the inflight FIFO (_buffer_fill) sum to at most RX_BUFFER_SIZE.
C1_FlowControlSafety == SumSeq(buffer_fill) <= RX_BUFFER_SIZE

\* A TX worker is between its write and its status = SENT
InWriteStep == \E w \in Workers : tx[w].pc \in {"append", "mark"}

\* C2. The host never over-fills the firmware receive buffer: the lines
\* written to the transport (streamed or sent by send_command) that the
\* firmware has not answered yet total at most RX_BUFFER_SIZE bytes, and,
\* once a write is accounted for, the inflight FIFO sums to no less than
\* those bytes.
C2_NoOverfill ==
  /\ SumSeq(FwCosts) <= RX_BUFFER_SIZE
  /\ ~InWriteStep => SumSeq(buffer_fill) >= SumSeq(FwCosts)

\* An ok or error line is processed
RxAck == RxOk \/ RxError(ErrCode)

\* C3. Ack order: the firmware answers lines in the order it received them,
\* so the k-th ok/error of a run is the answer to the k-th line written in
\* it; processing the answer to a command of the loaded program sets the
\* status of that command (OK for ok, ERROR for error) and of no other.
C3_AckOrder ==
  [][RxAck /\ Head(fw).cmd # 0
       => cstatus' = [cstatus EXCEPT ![Head(fw).cmd] =
                        IF Head(fw).ok THEN "OK" ELSE "ERROR"]]_vars

\* The commands of the loaded program in SENT status
SentSet == {i \in DOMAIN cstatus : cstatus[i] = "SENT"}

\* C4. Outside the TX worker's write step, the inflight FIFO has as many
\* entries as the loaded program has commands in SENT status.
C4_InflightMatchesSent ==
  ~InWriteStep => Len(buffer_fill) = Cardinality(SentSet)

\* C5. A command is SENT, OK or ERROR only in a run in which its bytes were
\* written to the transport.
C5_StatusAfterWrite ==
  \A i \in DOMAIN cstatus : cstatus[i] # "QUEUED" => i \in written

\* A TX worker is running
Running(w) == tx[w].pc \notin {"off", "done", "dead"}

\* The step is a program-wide reset (reset_status in load_file, start_stream)
ResetStep == (\E p \in DOMAIN Programs : load_file(p)) \/ start_stream

\* One command's status across a step: unchanged, QUEUED -> SENT,
\* SENT -> OK or ERROR, or back to QUEUED in a program-wide reset
StatusStep(old, new) ==
  \/ new = old
  \/ old = "QUEUED" /\ new = "SENT"
  \/ old = "SENT" /\ new \in {"OK", "ERROR"}

\* C6. Statuses only move QUEUED -> SENT -> {OK, ERROR}; a command that is
\* OK or ERROR keeps its status for the rest of the run; when the workers
\* have finished, every command that reached SENT and whose ok/error was
\* processed is OK or ERROR; only a program-wide reset goes back to QUEUED.
C6_StatusMonotone ==
  [][/\ ~ResetStep =>
          \A i \in DOMAIN cstatus : StatusStep(cstatus[i], cstatus'[i])
     /\ (\A w \in Workers : ~Running(w))' =>
          (\A i \in acked : cstatus[i] # "SENT")']_vars

\* C7. Within one run, from the start_stream that starts the TX worker until
\* that worker finishes, the cursor never decreases.
C7_CursorMonotone ==
  [][nruns > 0 /\ nruns' = nruns /\ Running(nruns) /\ Running(nruns)'
       => cmd_index' >= cmd_index]_vars

\* C9. on_job_finished is never called more often than TX workers were
\* started, and once every started worker has ended it has been called
\* exactly once per worker.
C9_JobFinishedOnce ==
  /\ nfired <= nruns
  /\ (\A w \in Workers : ~Running(w)) => nfired = nruns

\* The run is over: its TX worker has returned and the firmware has answered
\* every line it received
RunOver == nruns > 0 /\ tx[nruns].pc = "done" /\ fw = << >>

\* C8. Run completion: when every written line is answered with ok and
\* nothing disturbs the run, it ends with streaming false, every command OK,
\* ok_count = total and the inflight FIFO empty.  Statuses change only while
\* streaming is true, and only the end of the TX worker sets it false, so the
\* run reaches that state if and only if it is in it once the run is over.
C8_RunCompletes ==
  RunOver => /\ ~streaming
             /\ \A i \in DOMAIN cstatus : cstatus[i] = "OK"
             /\ ok_count = total
             /\ buffer_fill = << >>

\* on_progress_update is called in this step (_handle_ok, lines 425-426)
ProgressCall == RxOk /\ prog # 0 /\ streaming

\* C10. In a run whose commands are all answered with ok, every call of the
\* progress observer carries more than the call before it, and the last
\* call of the run carries 100.
C10_ProgressIncreases ==
  [][/\ ProgressCall => FracLess(lastpct, lastpct')
     /\ RunOver' => lastpct'[1] = lastpct'[2]]_vars

\* C11. A firmware error is not fatal: when an error:N line is processed
\* while a command is SENT, the oldest SENT command becomes ERROR with
\* error_code N, its cost leaves the head of the inflight FIFO, the
\* streaming and abort flags keep their values, and on_error is called once.
C11_ErrorNotFatal ==
  [][RxError(ErrCode) /\ SentSet # {}
       => /\ cstatus' = [cstatus EXCEPT ![OldestSent] = "ERROR"]
          /\ ecode' = [ecode EXCEPT ![OldestSent] = ErrCode]
          /\ buffer_fill # << >>
          /\ Head(buffer_fill) = byte_count(Programs[prog][OldestSent])
          /\ buffer_fill' = Tail(buffer_fill)
          /\ streaming' = streaming /\ abort' = abort
          /\ notify' = << "error" >>]_vars

\* C12. Once abort_stream() has returned and the TX worker has exited,
\* streaming is false and the inflight FIFO is empty.
C12_AbortClears ==
  aborted /\ op = "idle" /\ (\A w \in Workers : ~Running(w))
    => ~streaming /\ buffer_fill = << >>

\* A TX worker writes a line of the program to the transport in this step
ProgramWrite == \E w \in Workers : TxWrite(w) /\ is_connected

\* C13. abort_stream() writes the soft-reset byte, then M5, then G0 X0 Y0
\* (the order of its steps), and no line of the program is written after
\* the soft-reset byte.
C13_AbortOrder == [][ProgramWrite => ~aborted]_vars
\* C14. Protocol desync is harmless: an ok or error line processed while no
\* command of the program is SENT leaves the inflight FIFO, the cursor and
\* every command's status and error_code unchanged.
C14_DesyncHarmless ==
  [][RxAck /\ SentSet = {}
       => UNCHANGED << buffer_fill, cmd_index, cstatus, ecode >>]_vars
\* connect() is past its assignment of CONNECTING (line 206)
InConnect == op \in {"conn_open", "conn_wait", "conn_query"}

\* C15. Within one call of connect(), once firmware_status has been set to
\* CONNECTING it leaves CONNECTING once: having left, it does not become
\* CONNECTING again during the call, and it is not CONNECTING when the call
\* returns.
C15_ConnectingLeftOnce ==
  [][InConnect
       => /\ mstatus # "CONNECTING" => mstatus' # "CONNECTING"
          /\ op' = "idle" => mstatus' # "CONNECTING"]_vars

\* connect() has returned after its status query, with the status that the
\* RX worker took from a status report
C15_Witness ==
  op = "idle" /\ notify = << "connected" >> /\ mstatus = "ALARM" /\ ~version
\* The job state: program statuses, cursor, inflight FIFO and the flags
job == << file, cmd_index, buffer_fill, flags >>

\* What a failed open leaves behind: status DISCONNECTED, not connected,
\* on_error called once and on_connected not, no RX or status worker
OpenFailOutcome ==
  /\ mstatus' = "DISCONNECTED"
  /\ ~is_connected'
  /\ notify' = << "error" >>
  /\ ~RxReads'

\* C16 as stated. When the transport open fails inside connect(), the call
\* returns with the outcome above and with the job state it was called with.
C16_OpenFail ==
  [][ConnectFail
       => /\ OpenFailOutcome
          /\ UNCHANGED << file, cmd_index, buffer_fill, paused >>
          /\ streaming' = cc.streaming /\ abort' = cc.abort]_vars

\* C16, amended. The steps of a connect() called on a controller that is not
\* connected leave the job state unchanged, and a failed open returns with
\* the outcome above; called on a connected controller, connect() has first
\* disconnected, which clears streaming and sets abort.
C16_OpenFailNotConnected ==
  [][/\ Connect1 => UNCHANGED job
     /\ ConnectFail => OpenFailOutcome /\ UNCHANGED job]_vars

\* An open has just failed on a controller that holds a program
C16_Witness ==
  /\ op = "idle" /\ notify = << "error" >> /\ port = "none"
  /\ mstatus = "DISCONNECTED" /\ prog # 0
\* connect() returns after its open succeeded
ConnectReturn == op \in {"conn_wait", "conn_query"} /\ op' = "idle"

\* C17. Every connect() whose open succeeds notifies on_connected exactly
\* once; with the welcome line received within the wait it returns with
\* status IDLE, and with neither a welcome line nor a status report received
\* it returns with status UNKNOWN.
C17_ConnectedOnce ==
  [][ConnectReturn
       => /\ notify' = << "connected" >>
          /\ op = "conn_wait" /\ version => mstatus' = "IDLE"
          /\ ~version /\ ~cc.report => mstatus' = "UNKNOWN"]_vars
\* What disconnect() leaves behind
Disconnected ==
  ~is_connected /\ ~version /\ ~streaming /\ mstatus = "DISCONNECTED"

\* C18. When disconnect() returns the controller is not connected, the
\* version is empty, streaming is false, the status is DISCONNECTED and
\* on_disconnected has been called once; the four values stay so until the
\* next connect(), whatever a worker that outlived its join does.
C18_DisconnectHolds ==
  [][/\ Disconnect2 => notify' = << "disconnected" >>
     /\ cc'.closed => Disconnected']_vars
\* start_stream() is called and finds no program, no connection, or a run
\* in progress
StartRefused == start_stream /\ (prog = 0 \/ ~is_connected \/ streaming)

\* C19. start_stream() called with no program loaded, on a controller that is
\* not connected, or while streaming is set (paused or not) starts no TX
\* worker and changes no status, error code, cursor, inflight cost or flag.
C19_StartRefused ==
  [][StartRefused
       => UNCHANGED << file, cmd_index, buffer_fill, flags, tx, nruns >>]_vars

\* start_stream() has just returned early from a paused run whose worker holds
\* the first command
C19_Witness ==
  /\ notify = << "refused" >> /\ streaming /\ paused /\ is_connected
  /\ prog # 0 /\ \E w \in Workers : Running(w)
\* C20. While the run is paused the TX worker writes no program command:
\* from pause_stream() to resume_stream() the cursor does not advance and
\* nothing is appended to the inflight record, while an ok or error line is
\* still processed and removes the oldest inflight cost.
C20_PausedHolds ==
  [][paused /\ paused'
       => /\ ~ProgramWrite
          /\ cmd_index' <= cmd_index
          /\ Len(buffer_fill') <= Len(buffer_fill)
          /\ RxAck /\ buffer_fill # << >>
               => buffer_fill' = Tail(buffer_fill)]_vars
\* The TX worker of the current run has had a write fail
WriteFailed == nruns > 0 /\ tx[nruns].failed

\* C21. When a write of the TX worker fails, the command whose write failed
\* stays QUEUED, the cursor and the inflight FIFO are left as they are and
\* streaming becomes false; from then on no command of the program is
\* written in that run, and the worker goes on to call on_job_finished.
C21_WriteFailStops ==
  [][/\ \A w \in Workers :
          TxWriteFail(w)
            => /\ tx[w].own => cstatus'[tx[w].cmd] = "QUEUED"
               /\ UNCHANGED << cmd_index, buffer_fill >>
               /\ ~streaming'
               /\ tx'[w].pc = "drain"
     /\ WriteFailed => ~ProgramWrite]_vars
\* C22. A read failure in the RX worker is fatal: the RX worker reads no
\* further line, the status becomes DISCONNECTED, and a TX worker that has
\* read the cleared _alive flag writes no further command of the program:
\* reading it at line 597 or 619 it leaves the loop, and having read it at
\* line 613 it does not go on to the write.
C22_ReadFailFatal ==
  [][/\ RxFail => ~RxReads' /\ mstatus' = "DISCONNECTED"
     /\ \A w \in Workers :
          /\ (TxLoop(w) \/ TxCheck(w)) /\ ~alive => tx'[w].pc = "drain"
          /\ tx[w].saw => ~(TxWrite(w) /\ is_connected)]_vars
\* C23. No failure escapes the TX worker: no worker is ended by an exception
\* that _tx_loop does not catch (every worker that stops has set streaming
\* false and called on_job_finished), so streaming is never true with no TX
\* worker running.
C23_NoEscape ==
  /\ \A w \in Workers : tx[w].pc # "dead"
  /\ streaming => \E w \in Workers : Running(w)
\* C24. After reset_status(), whatever the statuses were, ok_count,
\* error_count and sent_count are 0 and no command carries an error code;
\* total and the commands themselves (their order and text) are unchanged.
C24_ResetSemantics ==
  [][ResetStatus
       => /\ ok_count' = 0 /\ error_count' = 0 /\ sent_count' = 0
          /\ \A i \in DOMAIN ecode' : ecode'[i] = 0
          /\ total' = total
          /\ prog' = prog]_vars

\* reset_status() has been applied to the three-command program
C24_Witness ==
  /\ calls > 0 /\ prog = RunProgram /\ sent_count = 0
  /\ ecode = << 0, 0, 0 >>
\* C25. Normalization is idempotent: normalizing the normalized text of a
\* raw line gives the normalized text again.
C25_Idempotent == Len(texts) = 2 => texts[2] = texts[1]

\* A line with two comments, a lower-case word, blanks and a trailing
\* comment has been normalized twice
C25_Witness ==
  /\ raw = << "(", ")", " ", "g", ";" >>
  /\ texts = << << "G" >>, << "G" >> >>
\* The motion commands G0-G3
IsMotion(c) == c.word \in {G0, G1}

\* The end position of command i on an axis, by modal tracking from the
\* origin: the command's own word, else the position before it
RECURSIVE EndX(_), EndY(_)
EndX(i) ==
  IF i = 0 THEN 0
  ELSE IF commands[i].x # << >> THEN commands[i].x[1] ELSE EndX(i - 1)
EndY(i) ==
  IF i = 0 THEN 0
  ELSE IF commands[i].y # << >> THEN commands[i].y[1] ELSE EndY(i - 1)

\* m is the least (greatest) of the values f takes on the non-empty set S
IsMin(m, S) == m \in S /\ \A v \in S : m <= v
IsMax(m, S) == m \in S /\ \A v \in S : m >= v

\* C26. For a program of motion commands only, get_bounds returns the
\* component-wise minimum and maximum of the end positions P1..Pn (modal
\* tracking from the origin); for a program with no motion command it
\* returns (0, 0, 0, 0).
C26_Bounds ==
  bounds # << >>
    => /\ (commands # << >> /\ \A i \in DOMAIN commands : IsMotion(commands[i]))
          => /\ IsMin(bounds[1], {EndX(i) : i \in DOMAIN commands})
             /\ IsMin(bounds[2], {EndY(i) : i \in DOMAIN commands})
             /\ IsMax(bounds[3], {EndX(i) : i \in DOMAIN commands})
             /\ IsMax(bounds[4], {EndY(i) : i \in DOMAIN commands})
       /\ (\A i \in DOMAIN commands : ~IsMotion(commands[i]))
          => bounds = << 0, 0, 0, 0 >>
\* The report r carries a field with key k
Has(r, k) == \E i \in DOMAIN r : r[i].key = k

\* The coordinates of the field of r with key k
Field(r, k) == r[CHOOSE i \in DOMAIN r : r[i].key = k].v

\* C27. After a report with an MPos and a WCO field and no WPos field, in
\* whichever order, work_pos is the MPos of that report minus its WCO on x,
\* y and z; after a report with a WPos field work_pos is that WPos.
C27_WorkPosition ==
  [][\A r \in Reports :
       ParsePosition(r)
         => /\ Has(r, "MPos") /\ Has(r, "WCO") /\ ~Has(r, "WPos")
               => work_pos' =
                    [k \in 1..3 |-> Field(r, "MPos")[k] - Field(r, "WCO")[k]]
            /\ Has(r, "WPos") => work_pos' = Field(r, "WPos")]_vars
\* C28. on_status_change is called only on actual transitions: two
\* consecutive calls never carry the same status, however the assignments
\* of the RX worker and of the caller's thread interleave.
C28_OnlyTransitions ==
  \A i \in 1..(Len(observed) - 1) : observed[i] # observed[i + 1]

\* C29. Within one run the commands of the program are written in index
\* order and each at most once, whatever the caller does with pause_stream,
\* resume_stream and send_command and whatever status reports arrive: each
\* write of a program command is that of the command at the cursor, and
\* finds written exactly the commands before it; so a worker that a pause
\* has held goes on, after the resume, with the command at the cursor.
C29_InOrderOnce ==
  [][\A w \in Workers :
       TxWrite(w) /\ is_connected /\ tx[w].own
         => /\ tx[w].cmd = cmd_index + 1
            /\ written = 1..(tx[w].cmd - 1)]_vars

\* A worker that a pause held after the first command has, after the
\* resume, written the second
C29_Witness ==
  \E w \in Workers :
    /\ tx[w].pc = "append" /\ tx[w].held /\ tx[w].cmd = 2
    /\ ~paused /\ written = {1, 2}

\* The steps made inside "with self._lock": the append of the TX worker
\* (lines 625-626) and the pop of _handle_ok and _handle_error (lines
\* 416-418, 432-434)
WithLock == RxAck \/ \E w \in Workers : TxAppend(w)

\* The steps of the TX worker and of the RX worker that assign the inflight
\* FIFO or the cursor (lines 418, 434, 626, 628)
ByWorker == RxAck \/ \E w \in Workers : TxAppend(w) \/ TxIncr(w)

\* The step changes the inflight FIFO or the cursor
Mutation == buffer_fill' # buffer_fill \/ cmd_index' # cmd_index

\* C30. Lock discipline: every step that changes the inflight FIFO or the
\* cursor is made holding the controller's mutex, and while a run is in
\* progress only the TX worker and the RX worker make such steps.
C30_LockDiscipline ==
  [][Mutation => /\ WithLock
                 /\ streaming => ByWorker]_vars

\* A real-time byte other than the soft reset is written: '?' by the status
\* poller or by connect(), '!', '~' or 0x85
RealtimeByte ==
  status_loop \/ ConnectQuery \/ feed_hold \/ cycle_resume \/ jog_cancel

\* C31. Writing a status query, a feed hold, a cycle resume or a jog cancel
\* leaves the inflight FIFO, the cursor and the status of every command as
\* they are.
C31_RealtimeFrame ==
  [][RealtimeByte => UNCHANGED << buffer_fill, cmd_index, cstatus >>]_vars

\* A feed hold was written in a run with a command in flight
C31_Witness ==
  /\ paused /\ streaming /\ cmd_index = 1
  /\ buffer_fill # << >> /\ cstatus[1] = "SENT"

\* C32. Processing an ALARM:N line sets the status to ALARM and notifies the
\* error observer; it leaves the streaming, paused and abort flags, the
\* cursor, the inflight FIFO and every command status as they are, and no
\* soft reset reaches the firmware: the lines it holds stay and it does not
\* boot.
C32_AlarmFrame ==
  [][RxAlarm => /\ mstatus' = "ALARM"
                /\ notify' = << "error" >>
                /\ UNCHANGED << flags, cmd_index, buffer_fill, cstatus >>
                /\ UNCHANGED << fw, welcome >>]_vars

\* An alarm was processed in a paused run with a command in flight
C32_Witness ==
  /\ notify = << "error" >> /\ mstatus = "ALARM"
  /\ streaming /\ paused /\ cmd_index = 1 /\ buffer_fill # << >>

\* C33. Whenever start_stream() starts a run, at the moment the TX worker is
\* started every command of the program is QUEUED with no error code, the
\* cursor is 0, the inflight FIFO is empty, streaming is true and paused and
\* abort are false, however the previous run ended.
C33_FreshRun ==
  [][StartThread
       => /\ \A i \in DOMAIN cstatus' : cstatus'[i] = "QUEUED" /\ ecode'[i] = 0
          /\ cmd_index' = 0
          /\ buffer_fill' = << >>
          /\ streaming' /\ ~paused' /\ ~abort']_vars

\* The drain wait of the TX worker has just expired with the inflight FIFO
\* not empty
TimedOut == \E w \in Workers : tx[w].pc = "end" /\ buffer_fill # << >>

\* The commands of the program that the firmware has not answered
Unanswered == {fw[i].cmd : i \in DOMAIN fw} \ {0}

\* C34. When the drain wait expires with the inflight FIFO not empty, the
\* run still ends: streaming becomes false and on_job_finished is called;
\* and when it is called, every command the firmware has not answered is
\* SENT.
C34_TimeoutEnds ==
  /\ TimedOut ~> (~streaming /\ nfired = 1)
  /\ [][\A w \in Workers :
          TxFire(w) => \A i \in Unanswered : cstatus[i] = "SENT"]_vars

\* The run has ended after a drain wait that expired: two commands are
\* unanswered, both SENT
C34_Witness ==
  /\ nruns = 1 /\ tx[1].pc = "done" /\ ~streaming /\ nfired = 1
  /\ Unanswered = {2, 3} /\ cstatus = << "OK", "SENT", "SENT" >>
  /\ Len(buffer_fill) = 2

\* The worker w is in the wait loop for the command c
Waits(w, c) ==
  /\ tx[w].pc \in {"wait", "wait_event", "wait_clear", "wait_read"}
  /\ tx[w].cmd = c

\* C35. No lost wake-up: once the TX worker is waiting for room for a
\* command and the lines processed by the RX worker have made room for it,
\* the worker eventually writes that command, whether the event was set
\* before the wait began or is cleared right after it was set.
C35_NoLostWakeup ==
  \A w \in Workers : \A c \in 1..3 :
    (Waits(w, c) /\ ~NoRoom(w)) ~> (c \in written)

\* The worker has written the command it waited for, with the event clear
\* although an ok has set it: the worker cleared it after that ok
C35_Witness ==
  /\ nruns = 1 /\ tx[1].pc = "append" /\ tx[1].cmd = 3
  /\ acked = {1} /\ ~rx_event /\ written = {1, 2, 3}

\* C36. The cost appended to the inflight FIFO for a command is the number
\* of bytes written for it, its text and one newline, and the ok or error
\* that answers the command removes that same cost: the oldest entry of the
\* FIFO is then the cost of the line the firmware answers.
C36_CostMatches ==
  [][/\ \A w \in Workers :
          TxAppend(w) /\ tx[w].own
            => buffer_fill' =
                 Append(buffer_fill, byte_count(Programs[prog][tx[w].cmd]))
     /\ RxAck /\ Head(fw).cmd # 0
          => /\ buffer_fill # << >>
             /\ Head(buffer_fill) = Head(fw).cost
             /\ buffer_fill' = Tail(buffer_fill)]_vars

\* The TX workers that are executing _tx_loop
RunningWorkers == {w \in Workers : Running(w)}

\* C37. At most one TX worker executes _tx_loop at any time, and a worker
\* that clears the streaming flag or calls on_job_finished is the worker of
\* the run started last.
C37_OneWorker ==
  /\ [](Cardinality(RunningWorkers) <= 1)
  /\ [][\A w \in Workers : TxEnd(w) \/ TxFire(w) => w = nruns]_vars

\* C38. After soft_reset() has cleared the streaming flag and the inflight
\* FIFO, the TX worker of the interrupted run writes no command of the
\* program and appends nothing to the FIFO, wherever it was at the reset.
C38_ResetStopsWorker ==
  [][\A w \in Workers :
       ~streaming => /\ ~(TxWrite(w) /\ is_connected /\ tx[w].own)
                     /\ ~TxAppend(w)]_vars

\* No connect() or disconnect() call is between its first and last statement
NoConnectCall ==
  op \notin {"conn_open", "conn_join", "conn_wait", "conn_query", "disc_join"}

\* C39. Whenever no connect() or disconnect() call is in progress, the
\* firmware status is DISCONNECTED exactly when the controller is not
\* connected.
C39_StatusTracksLink ==
  NoConnectCall => (mstatus = "DISCONNECTED" <=> ~is_connected)

\* The worker w holds a command that can never fit the firmware's buffer
Oversize(w) == tx[w].pc # "off" /\ tx[w].bc > RX_BUFFER_SIZE

\* C40. A command whose cost exceeds RX_BUFFER_SIZE is never written to the
\* transport: its worker stays in the wait-for-room loop, also with an empty
\* inflight FIFO, until the abort flag is set or the liveness flag is
\* cleared, and the command stays QUEUED, so its run does not complete.
C40_OversizeNeverWritten ==
  /\ [][\A w \in Workers :
          Oversize(w)
            => /\ ~(TxWrite(w) /\ is_connected)
               /\ TxRoom(w) => tx'[w].pc = "wait"
               /\ TxWait(w) /\ ~abort /\ alive => tx'[w].pc = "wait"]_vars
  /\ [](\A i \in DOMAIN cstatus :
          byte_count(Programs[prog][i]) > RX_BUFFER_SIZE
            => cstatus[i] = "QUEUED")

====
